---- MODULE Spec2Model ----
(***************************************************************************)
(* Model of primitives/runtime-interface/src/wasm.rs:                      *)
(*   - WrappedFFIValue (the carrier of an ffi value and an owned value),   *)
(*   - ExchangeableFunction (a Cell holding (impl, state)),                *)
(*   - RestoreImplementation (the guard whose Drop restores the cell).     *)
(* and of TestXt::apply of primitives/runtime/src/testing.rs.              *)
(***************************************************************************)
EXTENDS Integers, Sequences, FiniteSets, TLC

\* ------------------------------------------------------------------ bounds
NumCells == 2      \* number of static ExchangeableFunction slots
NumImpls == 1      \* function implementations are 0..NumImpls
MaxGuards == 2     \* RestoreImplementation values kept in the frames
MaxDepth == 1      \* nesting depth of scopes
LiveCells == 1     \* slots used by the runs checked under fairness
NumThreads == 2    \* threads sharing one slot in the unsynchronised runs
MaxVal == 2        \* ffi values, owned values and converted values are 0..MaxVal
MaxAddr == 2       \* addresses of the linear memory are 1..MaxAddr
MaxGets == 2       \* get() calls counted on one WrappedFFIValue
NumAccounts == 2   \* account ids of signers and doughnut issuers are 1..NumAccounts
MaxErr == 2        \* error values returned by the checks and the dispatch are 1..MaxErr
MaxPre == 1        \* Pre values returned by the pre-dispatch checks are 0..MaxPre

Cells == 1..NumCells
Impls == 0..NumImpls
Threads == 1..NumThreads
Vals == 0..MaxVal
Addrs == 1..MaxAddr
Accounts == 1..NumAccounts
Errs == 1..MaxErr
Pres == 0..MaxPre

\* Option::None of RestoreImplementation.1, and a static not yet constructed
None == -1
NoCell == [impl |-> None, state |-> "NoCell"]

MsgReplaced == "Trying to replace an already replaced implementation!"
MsgTaken == "Value is only taken on drop; qed"
MsgFail == "explicit failure"

VARIABLES
    cell,       \* cell[c]: the content (impl, state) of ExchangeableFunction c
    guards,     \* the RestoreImplementation values held by the open frames, oldest first
    depth,      \* number of open scopes; scope 0 is the caller of the outermost one
    pc,         \* "run" or "unwind" (a panic is propagating)
    catchDepth, \* while unwinding: the depth of the frame that catches the panic
    lastOp,     \* the last operation and what it returned
    origImpl,   \* history: the implementation each cell was created with
    replArg,    \* history: new_impl of the replace in effect on each cell, or None
    thr,        \* thr[t]: where thread t is in replace_implementation or drop
    ffi,        \* the WrappedFFIValue in use, the memory and the conversion results
    xt          \* the TestXt being applied: where apply is and what it called

vars == <<cell, guards, depth, pc, catchDepth, lastOp, origImpl, replArg, thr, ffi, xt>>

\* ------------------------------------------------------ WrappedFFIValue<T, O>

\* WrappedFFIValue::Wrapped(val)
Wrapped(val) == [tag |-> "Wrapped", data |-> val, owned |-> None]

\* WrappedFFIValue::WrappedAndOwned(val0, val1)
WrappedAndOwned(val0, val1) == [tag |-> "WrappedAndOwned", data |-> val0, owned |-> val1]

\* impl From<T> for WrappedFFIValue<T, O>
from(val) == Wrapped(val)

\* impl From<(T, O)> for WrappedFFIValue<T, O>
from_pair(val0, val1) == WrappedAndOwned(val0, val1)

\* mutation: the second arm of the match yields the owned value
wrapped_get_owned(w) == IF w.tag = "Wrapped" THEN w.data ELSE w.owned

\* WrappedFFIValue::get: Wrapped(data) | WrappedAndOwned(data, _) => *data
wrapped_get(w) ==
    CASE w.tag = "Wrapped" -> w.data
      [] w.tag = "WrappedAndOwned" -> w.data

NoCarrier == [tag |-> "none", data |-> None, owned |-> None]
NoBuf == [data |-> None, by |-> "free"]

\* no carrier made, memory empty, nothing converted
NoFFI ==
    [w |-> NoCarrier, v |-> None, got |-> None, gets |-> 0, kind |-> "none",
     x |-> None, src |-> "none", heap |-> [a \in Addrs |-> NoBuf], y |-> None]

\* ------------------------------------------------- ExchangeableFunction<T>

\* mutation: the cell is constructed with the wrong state tag
new_replaced(impl_) == [impl |-> impl_, state |-> "Replaced"]

\* ExchangeableFunction::new: Cell::new((impl_, Original))
new(impl_) == [impl |-> impl_, state |-> "Original"]

\* the test of replace_implementation: if let Replaced = self.0.get().1
is_replaced(cv) == cv.state = "Replaced"

\* mutation: the swap stores the new implementation with the old state tag
cell_replace_keeps_tag(cv, new_impl) == [impl |-> new_impl, state |-> cv.state]

\* mutation: the swap sets the state tag but keeps the old implementation
cell_replace_keeps_impl(cv, new_impl) == [impl |-> cv.impl, state |-> "Replaced"]

\* Cell::replace as used by replace_implementation: the value stored
cell_replace(cv, new_impl) == [impl |-> new_impl, state |-> "Replaced"]

\* mutation: the swap is done before the state is tested
replace_swaps_first(cv, new_impl) ==
    IF is_replaced(cv)
    THEN [panic |-> TRUE, cell |-> [impl |-> new_impl, state |-> "Replaced"], old |-> None]
    ELSE [panic |-> FALSE, cell |-> [impl |-> new_impl, state |-> "Replaced"], old |-> cv.impl]

\* mutation: the guard is given the new implementation, not the old one
replace_guard_holds_new(cv, new_impl) ==
    IF is_replaced(cv)
    THEN [panic |-> TRUE, cell |-> cv, old |-> None]
    ELSE [panic |-> FALSE, cell |-> cell_replace(cv, new_impl), old |-> new_impl]

\* mutation: a replace with the implementation already stored changes nothing
replace_skips_equal(cv, new_impl) ==
    IF is_replaced(cv)
    THEN [panic |-> TRUE, cell |-> cv, old |-> None]
    ELSE IF new_impl = cv.impl
         THEN [panic |-> FALSE, cell |-> cv, old |-> cv.impl]
         ELSE [panic |-> FALSE, cell |-> cell_replace(cv, new_impl), old |-> cv.impl]

\* replace_implementation on a cell holding cv: the panic, or the cell after
\* the swap and old.0, the value the returned guard holds as Some(old.0)
replace_implementation(cv, new_impl) ==
    IF is_replaced(cv)
    THEN [panic |-> TRUE, cell |-> cv, old |-> None]
    ELSE [panic |-> FALSE, cell |-> cell_replace(cv, new_impl), old |-> cv.impl]

\* mutation: the restore writes the implementation but not the state tag
restore_keeps_tag(cv, orig) == [impl |-> orig, state |-> cv.state]

\* mutation: the restore writes the state tag but not the implementation
restore_keeps_impl(cv, orig) == [impl |-> cv.impl, state |-> "Original"]

\* restore_orig_implementation: self.0.set((orig, Original))
restore_orig_implementation(cv, orig) == [impl |-> orig, state |-> "Original"]

\* mutation: get() looks at the state tag and yields nothing when Replaced
get_original_only(cv) == IF cv.state = "Original" THEN cv.impl ELSE None

\* ExchangeableFunction::get: self.0.get().0
get(cv) == cv.impl

\* ------------------------------------------------ RestoreImplementation<T>

\* RestoreImplementation(self, Some(old)), a local of the frame of depth scope
RestoreImplementation(c, old, scope) == [cell |-> c, val |-> old, scope |-> scope]

\* mutation: the value is copied out of the guard, not taken
take_copies(g) == g

\* Option::take on the guard's field 1: the guard afterwards
take(g) == [g EXCEPT !.val = None]

\* mutation: the destructor empties the guard without restoring the cell
drop_forgets(cells, g) ==
    [panic |-> g.val = None, cells |-> cells, guard |-> [g EXCEPT !.val = None]]

\* mutation: the destructor writes the guard's value into every cell
drop_all_cells(cells, g) ==
    IF g.val = None
    THEN [panic |-> TRUE, cells |-> cells, guard |-> take(g)]
    ELSE [panic |-> FALSE,
          cells |-> [c \in DOMAIN cells |-> restore_orig_implementation(cells[c], g.val)],
          guard |-> take(g)]

\* Drop::drop of guard g: take() empties the guard, expect() panics on None
\* before any write, otherwise the cell of the guard is restored
drop(cells, g) ==
    IF g.val = None
    THEN [panic |-> TRUE, cells |-> cells, guard |-> take(g)]
    ELSE [panic |-> FALSE,
          cells |-> [cells EXCEPT ![g.cell] = restore_orig_implementation(@, g.val)],
          guard |-> take(g)]

\* the guards of the frame of depth d that still hold their value
live_in(gs, d) == {k \in 1..Len(gs) : gs[k].scope = d /\ gs[k].val # None}

\* Leaving the frame of depth d (return or unwinding) drops its guards that
\* were not moved out, newest first; gs are the guards oldest first.
RECURSIVE drop_scope(_, _, _)
drop_scope(cells, gs, d) ==
    IF gs = <<>> \/ gs[Len(gs)].scope # d THEN cells
    ELSE LET g == gs[Len(gs)]
             rest == SubSeq(gs, 1, Len(gs) - 1)
         IN IF g.val = None THEN drop_scope(cells, rest, d)
            ELSE drop_scope(drop(cells, g).cells, rest, d)

\* the guards without guard k, which was moved out of its frame
remove(gs, k) == SubSeq(gs, 1, k - 1) \o SubSeq(gs, k + 1, Len(gs))

\* the guards that remain once the frame of depth d is gone
outer_guards(gs, d) == SelectSeq(gs, LAMBDA g : g.scope < d)

\* a thread that is in no call and holds no guard
Idle == [pc |-> "idle", new |-> None, old |-> None, val |-> NoCell, pend |-> {}]

\* ------------------------------------------- TestXt<AccountId, Call, Extra>

\* Result<Pre, TransactionValidityError> and Result<(), TransactionValidityError>
\* of the pre-dispatch checks
Ok(v) == [ok |-> TRUE, val |-> v, err |-> None]
Err(e) == [ok |-> FALSE, val |-> None, err |-> e]
CheckResults == {Ok(v) : v \in Pres} \cup {Err(e) : e \in Errs}
UnitResults == {Ok(0)} \cup {Err(e) : e \in Errs}

\* the result of call.dispatch(origin): Ok(()) or Err(e)
DispatchOk == [ok |-> TRUE, err |-> None]
DispatchErr(e) == [ok |-> FALSE, err |-> e]
DispatchResults == {DispatchOk} \cup {DispatchErr(e) : e \in Errs}
NoOutcome == [ok |-> FALSE, err |-> None]

\* ApplyExtrinsicResult: Ok(outcome) or Err(validity error)
ApplyOk(outcome) == [tag |-> "Ok", outcome |-> outcome, err |-> None]
ApplyErr(e) == [tag |-> "Err", outcome |-> NoOutcome, err |-> e]
NoRet == [tag |-> "none", outcome |-> NoOutcome, err |-> None]

\* Origin::from((Option<AccountId>, Option<Doughnut>)); a doughnut is known by
\* its issuer
Origin(who, doughnut) == [who |-> who, doughnut |-> doughnut]
NoOrigin == Origin(None, None)

\* TestXt { signature: Some((id, extra)), call } with extra.doughnut() = d,
\* and TestXt { signature: None, call }
Signed(id, d) == [signed |-> TRUE, id |-> id, doughnut |-> d]
Unsigned == [signed |-> FALSE, id |-> None, doughnut |-> None]
TestXts == {Signed(id, d) : id \in Accounts, d \in Accounts \cup {None}} \cup {Unsigned}

\* no apply was called
NoCheck == [ok |-> TRUE, val |-> None, err |-> None]
NoXt ==
    [at |-> "idle", tx |-> Unsigned, chk |-> NoCheck, pre |-> None, res |-> NoOutcome,
     origin |-> NoOrigin, trace |-> <<>>, post |-> None, ret |-> NoRet]

\* mutation: the error of a check is dropped and apply goes on
try_continues(r) == [returns |-> FALSE, ret |-> NoRet]

\* the ? on the result r of a check: Err(e) makes apply return Err(e.into()),
\* TransactionValidityError into itself
try(r) ==
    IF r.ok THEN [returns |-> FALSE, ret |-> NoRet]
    ELSE [returns |-> TRUE, ret |-> ApplyErr(r.err)]

\* the origin apply dispatches with: issuer and doughnut of a delegated
\* transaction, the signer of an ordinary one, nothing for an unsigned one
dispatch_origin(tx) ==
    IF tx.signed
    THEN IF tx.doughnut # None
         THEN Origin(tx.doughnut, tx.doughnut)
         ELSE Origin(tx.id, None)
    ELSE Origin(None, None)

\* res.map_err(Into::into): Ok(()) stays, the error of Err is converted
map_err_into(res) == IF res.ok THEN DispatchOk ELSE DispatchErr(res.err)

\* mutation: a failed dispatch is returned as the outer error
apply_return_flattens(res) == IF res.ok THEN ApplyOk(DispatchOk) ELSE ApplyErr(res.err)

\* the last expression of apply: Ok(res.map_err(Into::into))
apply_return(res) == ApplyOk(map_err_into(res))

\* ------------------------------------------------------------- operations

Op(op, c, arg, ret, out, msg, cells) ==
    [op |-> op, c |-> c, arg |-> arg, ret |-> ret, out |-> out, msg |-> msg,
     cells |-> cells]

Running == pc = "run" /\ depth >= 1

\* history: the replaces whose guard is dropped are no longer in effect
Ended(cs) == [c \in Cells |-> IF c \in cs THEN None ELSE replArg[c]]

\* a static ExchangeableFunction is constructed
New(c, i) ==
    /\ pc = "run"
    /\ cell[c] = NoCell
    /\ cell' = [cell EXCEPT ![c] = new(i)]
    /\ origImpl' = [origImpl EXCEPT ![c] = i]
    /\ lastOp' = Op("new", c, i, None, "ok", "", {})
    /\ UNCHANGED <<guards, depth, pc, catchDepth, replArg, thr, ffi, xt>>

\* replace_implementation(new_impl) on cell c
ReplaceImplementation(c, new_impl) ==
    /\ Running
    /\ cell[c] # NoCell
    /\ LET r == replace_implementation(cell[c], new_impl) IN
       IF r.panic
       THEN /\ pc' = "unwind"
            /\ catchDepth' \in 0..(depth - 1)
            /\ cell' = [cell EXCEPT ![c] = r.cell]
            /\ lastOp' = Op("replace", c, new_impl, None, "panic", MsgReplaced, {})
            /\ UNCHANGED <<guards, depth, origImpl, replArg, thr, ffi, xt>>
       ELSE /\ Len(guards) < MaxGuards
            /\ cell' = [cell EXCEPT ![c] = r.cell]
            /\ guards' = Append(guards, RestoreImplementation(c, r.old, depth))
            /\ replArg' = [replArg EXCEPT ![c] = new_impl]
            /\ lastOp' = Op("replace", c, new_impl, Len(guards) + 1, "ok", "", {})
            /\ UNCHANGED <<depth, pc, catchDepth, origImpl, thr, ffi, xt>>

\* get() on cell c
Get(c) ==
    /\ pc = "run"
    /\ cell[c] # NoCell
    /\ lastOp' = Op("get", c, None, get(cell[c]), "ok", "", {})
    /\ UNCHANGED <<cell, guards, depth, pc, catchDepth, origImpl, replArg, thr, ffi, xt>>

\* drop(guard) on guard k, or a move of it into a temporary that ends: the
\* guard leaves its frame and Drop::drop runs on it
DropGuard(k) ==
    /\ Running
    /\ k \in 1..Len(guards)
    /\ LET g == guards[k]
           r == drop(cell, g)
       IN /\ ~r.panic
          /\ cell' = r.cells
          /\ guards' = remove(guards, k)
          /\ replArg' = Ended({g.cell})
          /\ lastOp' = Op("drop", g.cell, get(cell[g.cell]), g.val, "ok", "", {g.cell})
          /\ UNCHANGED <<depth, pc, catchDepth, origImpl, thr, ffi, xt>>

\* the destructor of guard k is called in place (ptr::drop_in_place,
\* ManuallyDrop::drop): the guard stays where it is and its frame will not
\* destroy it again, but the call can be repeated
DropInPlace(k) ==
    /\ Running
    /\ k \in 1..Len(guards)
    /\ LET g == guards[k]
           r == drop(cell, g)
       IN /\ cell' = r.cells
          /\ guards' = [guards EXCEPT ![k] = r.guard]
          /\ IF r.panic
             THEN /\ pc' = "unwind"
                  /\ catchDepth' \in 0..(depth - 1)
                  /\ lastOp' = Op("drop_in_place", g.cell, k, None, "panic", MsgTaken, {})
                  /\ UNCHANGED <<depth, origImpl, replArg, thr, ffi, xt>>
             ELSE /\ replArg' = Ended({g.cell})
                  /\ lastOp' = Op("drop_in_place", g.cell, k, g.val, "ok", "", {g.cell})
                  /\ UNCHANGED <<depth, pc, catchDepth, origImpl, thr, ffi, xt>>

\* a block or call opens a scope
EnterScope ==
    /\ pc = "run"
    /\ depth < MaxDepth
    /\ depth' = depth + 1
    /\ lastOp' = Op("enter", None, depth + 1, None, "ok", "", {})
    /\ UNCHANGED <<cell, guards, pc, catchDepth, origImpl, replArg, thr, ffi, xt>>

\* the innermost frame is left and its guards are dropped
LeaveFrame(op, msg) ==
    LET cs == {guards[k].cell : k \in live_in(guards, depth)} IN
    /\ cell' = drop_scope(cell, guards, depth)
    /\ guards' = outer_guards(guards, depth)
    /\ depth' = depth - 1
    /\ replArg' = Ended(cs)
    /\ lastOp' = Op(op, None, depth, None, "ok", msg, cs)

\* normal or early return from the innermost scope
ExitScope ==
    /\ Running
    /\ LeaveFrame("exit", "")
    /\ UNCHANGED <<pc, catchDepth, origImpl, thr, ffi, xt>>

\* any other failure raised inside the innermost scope
Fail ==
    /\ Running
    /\ pc' = "unwind"
    /\ catchDepth' \in 0..(depth - 1)
    /\ lastOp' = Op("fail", None, None, None, "panic", MsgFail, {})
    /\ UNCHANGED <<cell, guards, depth, origImpl, replArg, thr, ffi, xt>>

\* the panic unwinds the innermost frame
Unwind ==
    /\ pc = "unwind"
    /\ depth > catchDepth
    /\ LeaveFrame("unwind", lastOp.msg)
    /\ UNCHANGED <<pc, catchDepth, origImpl, thr, ffi, xt>>

\* the panic reached the frame that catches it
Catch ==
    /\ pc = "unwind"
    /\ depth = catchDepth
    /\ pc' = "run"
    /\ catchDepth' = 0
    /\ lastOp' = Op("catch", None, depth, None, "ok", "", {})
    /\ UNCHANGED <<cell, guards, depth, origImpl, replArg, thr, ffi, xt>>

Init ==
    /\ cell = [c \in Cells |-> NoCell]
    /\ guards = <<>>
    /\ depth = 1
    /\ pc = "run"
    /\ catchDepth = 0
    /\ lastOp = Op("none", None, None, None, "ok", "", {})
    /\ origImpl = [c \in Cells |-> None]
    /\ replArg = [c \in Cells |-> None]
    /\ thr = [t \in Threads |-> Idle]
    /\ ffi = NoFFI
    /\ xt = NoXt

Next ==
    \/ \E c \in Cells, i \in Impls : New(c, i)
    \/ \E c \in Cells, i \in Impls : ReplaceImplementation(c, i)
    \/ \E c \in Cells : Get(c)
    \/ \E k \in 1..MaxGuards : DropGuard(k)
    \/ EnterScope
    \/ ExitScope
    \/ Fail
    \/ Unwind
    \/ Catch

Spec == Init /\ [][Next]_vars

\* Every scope that was entered is left in the end, by a return or by a
\* failure, and a propagating panic keeps unwinding until it is caught.
ExitAt(d) == depth = d /\ ExitScope

Fairness ==
    /\ WF_vars(Unwind)
    /\ WF_vars(Catch)
    /\ \A d \in 1..MaxDepth : SF_vars(ExitAt(d))

\* the program when only the first LiveCells slots are ever replaced
NextLive ==
    \/ \E c \in Cells, i \in Impls : New(c, i)
    \/ \E c \in Cells \cap (1..LiveCells), i \in Impls : ReplaceImplementation(c, i)
    \/ \E c \in Cells : Get(c)
    \/ \E k \in 1..MaxGuards : DropGuard(k)
    \/ EnterScope
    \/ ExitScope
    \/ Fail
    \/ Unwind
    \/ Catch

SpecLive == Init /\ [][NextLive]_vars /\ Fairness

\* the same program with explicit destructor calls on its guards
NextUnsafe ==
    \/ \E c \in Cells, i \in Impls : New(c, i)
    \/ \E c \in Cells \cap (1..LiveCells), i \in Impls : ReplaceImplementation(c, i)
    \/ \E c \in Cells : Get(c)
    \/ \E k \in 1..MaxGuards : DropGuard(k)
    \/ \E k \in 1..MaxGuards : DropInPlace(k)
    \/ EnterScope
    \/ ExitScope
    \/ Fail
    \/ Unwind
    \/ Catch

SpecUnsafe == Init /\ [][NextUnsafe]_vars

\* ------------------------------------------------ unsynchronised sharing
\* unsafe impl Sync lets several threads call into one static cell. The Cell
\* gives no atomicity: the test of the state, the read of the old content and
\* the write of each field of the new content are separate steps.

\* the static slot the threads share
SharedCell == 1

Fields == {"impl", "state"}

\* mutation: the swap compares the state again before it writes
swap_compares(cv) == ~is_replaced(cv)

\* Cell::replace in replace_implementation is unconditional: nothing of the
\* state read by the test before it is compared again
swap_allowed(cv) == TRUE

ConcOnly == UNCHANGED <<guards, depth, pc, catchDepth, lastOp, origImpl, replArg, ffi, xt>>

\* thread t enters replace_implementation(new_impl) and tests the state
TCheck(t, new_impl) ==
    /\ thr[t].pc = "idle"
    /\ IF is_replaced(cell[SharedCell])
       THEN thr' = [thr EXCEPT ![t].pc = "panicked"]
       ELSE thr' = [thr EXCEPT ![t].pc = "checked", ![t].new = new_impl]
    /\ UNCHANGED cell
    /\ ConcOnly

\* thread t starts self.0.replace(..): it reads the old content
TSwapRead(t) ==
    /\ thr[t].pc = "checked"
    /\ IF swap_allowed(cell[SharedCell])
       THEN thr' = [thr EXCEPT ![t] =
                [pc |-> "writing", new |-> None, old |-> cell[SharedCell].impl,
                 val |-> cell_replace(cell[SharedCell], thr[t].new), pend |-> Fields]]
       ELSE thr' = [thr EXCEPT ![t].pc = "panicked"]
    /\ UNCHANGED cell
    /\ ConcOnly

\* thread t writes one field of the content it is storing; after the last
\* field replace_implementation returns the guard, or the drop is over
TWrite(t, f) ==
    /\ thr[t].pc \in {"writing", "restoring"}
    /\ f \in thr[t].pend
    /\ cell' = [cell EXCEPT ![SharedCell][f] = thr[t].val[f]]
    /\ thr' = [thr EXCEPT ![t] =
            IF thr[t].pend = {f}
            THEN IF thr[t].pc = "writing"
                 THEN [@ EXCEPT !.pc = "holding", !.pend = {}, !.val = NoCell]
                 ELSE Idle
            ELSE [@ EXCEPT !.pend = @ \ {f}]]
    /\ ConcOnly

\* the guard of thread t is dropped: take(), then restore_orig_implementation
TDrop(t) ==
    /\ thr[t].pc = "holding"
    /\ LET g == RestoreImplementation(SharedCell, thr[t].old, 1) IN
       thr' = [thr EXCEPT ![t] =
            [pc |-> "restoring", new |-> None, old |-> take(g).val,
             val |-> restore_orig_implementation(cell[SharedCell], g.val),
             pend |-> Fields]]
    /\ UNCHANGED cell
    /\ ConcOnly

\* the panic of a rejected replace has unwound thread t
TUnwound(t) ==
    /\ thr[t].pc = "panicked"
    /\ thr' = [thr EXCEPT ![t] = Idle]
    /\ UNCHANGED cell
    /\ ConcOnly

InitConc ==
    /\ origImpl \in [Cells -> Impls \cup {None}]
    /\ \A c \in Cells : origImpl[c] = None <=> c # SharedCell
    /\ cell = [c \in Cells |-> IF c = SharedCell THEN new(origImpl[c]) ELSE NoCell]
    /\ guards = <<>>
    /\ depth = 1
    /\ pc = "run"
    /\ catchDepth = 0
    /\ lastOp = Op("none", None, None, None, "ok", "", {})
    /\ replArg = [c \in Cells |-> None]
    /\ thr = [t \in Threads |-> Idle]
    /\ ffi = NoFFI
    /\ xt = NoXt

NextConc ==
    \/ \E t \in Threads, i \in Impls : TCheck(t, i)
    \/ \E t \in Threads : TSwapRead(t)
    \/ \E t \in Threads, f \in Fields : TWrite(t, f)
    \/ \E t \in Threads : TDrop(t)
    \/ \E t \in Threads : TUnwound(t)

SpecConc == InitConc /\ [][NextConc]_vars

\* ------------------------------------------- FromFFIValue and IntoFFIValue
\* The traits are declared in wasm.rs; their implementations are not part of
\* it. Three implementations stand for them: a scalar that is its own ffi
\* value (Owned = ()), a byte buffer passed as a pointer into the caller's own
\* memory, and a structured value passed as a pointer to an encoding that the
\* WrappedFFIValue owns.
Kinds == {"scalar", "borrowed", "owned"}

\* the encoding of a structured value, and its inverse
encode(x) == 2 * x + 1
decode(b) == (b - 1) \div 2

\* the bytes a pointer of this kind points to
buffer_of(kind, x) == IF kind = "owned" THEN encode(x) ELSE x

\* IntoFFIValue::into_ffi_value on the wasm side, with a the address of the
\* buffer: the WrappedFFIValue returned
into_ffi_value(kind, x, a) ==
    CASE kind = "scalar" -> from(x)
      [] kind = "borrowed" -> from(a)
      [] kind = "owned" -> from_pair(a, encode(x))

\* host::IntoFFIValue: the ffi value the host hands to the wasm side
host_into_ffi_value(kind, x, a) == IF kind = "scalar" THEN x ELSE a

\* mutation: the buffer of a structured value is returned undecoded
from_ffi_value_raw(kind, arg, heap) ==
    IF kind = "scalar" THEN {arg}
    ELSE IF arg \in Addrs /\ heap[arg].by = "host" THEN {heap[arg].data}
    ELSE Vals

\* FromFFIValue::from_ffi_value: the values it can return. An implementation
\* may assume that arg was generated by the corresponding host::IntoFFIValue;
\* on a pointer that into_ffi_value().get() of the wasm side produced the
\* behaviour is undefined, any value can come out.
from_ffi_value(kind, arg, heap) ==
    IF kind = "scalar" THEN {arg}
    ELSE IF arg \in Addrs /\ heap[arg].by = "host"
         THEN {IF kind = "owned" THEN decode(heap[arg].data) ELSE heap[arg].data}
         ELSE Vals

FFIOnly ==
    UNCHANGED <<cell, guards, depth, pc, catchDepth, lastOp, origImpl, replArg, thr, xt>>

\* WrappedFFIValue::from(v)
FromValue(v) ==
    /\ ffi' = [NoFFI EXCEPT !.w = from(v), !.v = v]
    /\ FFIOnly

\* WrappedFFIValue::from((v, o))
FromPair(v, o) ==
    /\ ffi' = [NoFFI EXCEPT !.w = from_pair(v, o), !.v = v]
    /\ FFIOnly

\* get() on the WrappedFFIValue
WrappedGet ==
    /\ ffi.w # NoCarrier
    /\ ffi.gets < MaxGets
    /\ ffi' = [ffi EXCEPT !.got = wrapped_get(ffi.w), !.gets = @ + 1]
    /\ FFIOnly

\* x.into_ffi_value() on the wasm side; the buffer of a pointer kind is at a
IntoFFIValue(kind, x, a) ==
    /\ ffi' = [NoFFI EXCEPT
            !.kind = kind, !.x = x, !.src = "wasm",
            !.w = into_ffi_value(kind, x, a),
            !.v = into_ffi_value(kind, x, a).data,
            !.heap = IF kind = "scalar" THEN @
                     ELSE [@ EXCEPT ![a] = [data |-> buffer_of(kind, x), by |-> "wasm"]]]
    /\ FFIOnly

\* the host converts x and calls into wasm with the ffi value
HostIntoFFIValue(kind, x, a) ==
    /\ ffi' = [NoFFI EXCEPT
            !.kind = kind, !.x = x, !.src = "host",
            !.got = host_into_ffi_value(kind, x, a),
            !.heap = IF kind = "scalar" THEN @
                     ELSE [@ EXCEPT ![a] = [data |-> buffer_of(kind, x), by |-> "host"]]]
    /\ FFIOnly

\* from_ffi_value on the ffi value at hand
FromFFIValue ==
    /\ ffi.kind # "none"
    /\ ffi.got # None
    /\ ffi.y = None
    /\ \E r \in from_ffi_value(ffi.kind, ffi.got, ffi.heap) : ffi' = [ffi EXCEPT !.y = r]
    /\ FFIOnly

NextFFI ==
    \/ \E v \in Vals : FromValue(v)
    \/ \E v \in Vals, o \in Vals : FromPair(v, o)
    \/ WrappedGet
    \/ \E k \in Kinds, x \in Vals, a \in Addrs : IntoFFIValue(k, x, a)
    \/ \E k \in Kinds, x \in Vals, a \in Addrs : HostIntoFFIValue(k, x, a)
    \/ FromFFIValue

SpecFFI == Init /\ [][NextFFI]_vars

\* --------------------------------------------------------- TestXt::apply
\* apply calls into Extra, U and Call; each call is a step, and the code of
\* apply up to its next call, or to its return, belongs to the step.

ApplyOnly ==
    UNCHANGED <<cell, guards, depth, pc, catchDepth, lastOp, origImpl, replArg, thr, ffi>>

\* the check called name returned r: the ? returns from apply or apply goes
\* on at next, keeping the Pre of the check if it has one
Checked(name, r, keeps, next) ==
    LET t == try(r) IN
    xt' = [xt EXCEPT
            !.chk = r,
            !.trace = Append(@, name),
            !.pre = IF ~t.returns /\ keeps THEN r.val ELSE @,
            !.ret = IF t.returns THEN t.ret ELSE @,
            !.at = IF t.returns THEN "done" ELSE next]

\* tx.apply(info, len) is called
Apply(tx) ==
    /\ xt.at \in {"idle", "done"}
    /\ xt' = [NoXt EXCEPT !.at = "start", !.tx = tx]
    /\ ApplyOnly

\* signed: Extra::pre_dispatch(&extra, &id, &self.call, info.clone(), len)?
PreDispatch(r) ==
    /\ xt.at = "start"
    /\ xt.tx.signed
    /\ Checked("Extra::pre_dispatch", r, TRUE, "dispatch")
    /\ ApplyOnly

\* unsigned: Extra::pre_dispatch_unsigned(&self.call, info.clone(), len)?
PreDispatchUnsigned(r) ==
    /\ xt.at = "start"
    /\ ~xt.tx.signed
    /\ Checked("Extra::pre_dispatch_unsigned", r, TRUE, "validate")
    /\ ApplyOnly

\* unsigned: U::pre_dispatch(&self.call)?
UPreDispatch(r) ==
    /\ xt.at = "validate"
    /\ Checked("U::pre_dispatch", r, FALSE, "dispatch")
    /\ ApplyOnly

\* self.call.dispatch(Origin::from(..)) returns r
Dispatch(r) ==
    /\ xt.at = "dispatch"
    /\ xt' = [xt EXCEPT
            !.origin = dispatch_origin(xt.tx),
            !.res = r,
            !.trace = Append(@, "call.dispatch"),
            !.at = "post"]
    /\ ApplyOnly

\* Extra::post_dispatch(pre, info, len); Ok(res.map_err(Into::into))
PostDispatch ==
    /\ xt.at = "post"
    /\ xt' = [xt EXCEPT
            !.post = xt.pre,
            !.trace = Append(@, "Extra::post_dispatch"),
            !.ret = apply_return(xt.res),
            !.at = "done"]
    /\ ApplyOnly

NextApply ==
    \/ \E tx \in TestXts : Apply(tx)
    \/ \E r \in CheckResults : PreDispatch(r)
    \/ \E r \in CheckResults : PreDispatchUnsigned(r)
    \/ \E r \in UnitResults : UPreDispatch(r)
    \/ \E r \in DispatchResults : Dispatch(r)
    \/ PostDispatch

SpecApply == Init /\ [][NextApply]_vars

TypeOK ==
    /\ cell \in [Cells -> [impl : Impls \cup {None}, state : {"NoCell", "Original", "Replaced"}]]
    /\ depth \in 0..MaxDepth
    /\ pc \in {"run", "unwind"}
    /\ Len(guards) <= MaxGuards

\* ------------------------------------------------------------- properties

\* C1: a get() on a cell created with A returns A while no replace is in
\* effect (before any replace, and again after the guard is dropped), and
\* returns the B of replace_implementation(B) from the replace until the
\* returned guard is dropped.
C1_ExchangeRestoreSymmetry ==
    lastOp.op = "get" =>
        lastOp.ret = (IF replArg[lastOp.c] # None THEN replArg[lastOp.c]
                      ELSE origImpl[lastOp.c])

\* replace(B) displaced A, the guard was dropped, and get() is A again
C1_Witness ==
    /\ lastOp.op = "drop"
    /\ lastOp.arg # lastOp.ret
    /\ get(cell[lastOp.c]) = origImpl[lastOp.c]
    /\ lastOp.ret = origImpl[lastOp.c]

\* C2: replace_implementation on a cell whose state is Replaced panics,
\* returns no guard, and leaves the cell's implementation and state tag (and
\* every guard) as they were.
C2_FatalDoubleReplace ==
    [][\A c \in Cells :
        (cell[c].state = "Replaced" /\ lastOp'.op = "replace" /\ lastOp'.c = c) =>
            /\ lastOp'.out = "panic"
            /\ lastOp'.msg = MsgReplaced
            /\ lastOp'.ret = None
            /\ pc' = "unwind"
            /\ guards' = guards
            /\ cell' = cell]_vars

\* a replace was rejected while the first replace was still in effect
C2_Witness ==
    /\ lastOp.op = "replace"
    /\ lastOp.out = "panic"
    /\ cell[lastOp.c].state = "Replaced"
    /\ cell[lastOp.c].impl # lastOp.arg

\* C3: when a panic unwinds the frame that owns the guard of a successful
\* replace, the cell of that guard afterwards holds the implementation it was
\* created with, in state Original.
C3_PanicSafety ==
    [][lastOp'.op = "unwind" =>
        \A k \in live_in(guards, depth) :
            cell'[guards[k].cell] = new(origImpl[guards[k].cell])]_vars

\* the panic of a rejected second replace has unwound the frame of the guard
C3_Witness ==
    /\ lastOp.op = "unwind"
    /\ lastOp.msg = MsgReplaced
    /\ lastOp.cells # {}
    /\ \A c \in lastOp.cells : cell[c] = new(origImpl[c])

\* C4: the state tag of a cell changes only from Original to Replaced, in a
\* successful replace_implementation on that cell, and from Replaced to
\* Original, in the drop of a guard of that cell; both steps do change it;
\* among new, get and replace only a replace on a Replaced cell panics.
C4_TagTransitions ==
    [][\A c \in Cells :
        /\ (cell[c].state # "NoCell" /\ cell'[c].state # cell[c].state) =>
              \/ /\ cell[c].state = "Original" /\ cell'[c].state = "Replaced"
                 /\ lastOp'.op = "replace" /\ lastOp'.c = c /\ lastOp'.out = "ok"
              \/ /\ cell[c].state = "Replaced" /\ cell'[c].state = "Original"
                 /\ lastOp'.op \in {"drop", "drop_in_place", "exit", "unwind"} /\ c \in lastOp'.cells
        /\ (lastOp'.op = "replace" /\ lastOp'.c = c /\ lastOp'.out = "ok") =>
              (cell[c].state = "Original" /\ cell'[c].state = "Replaced")
        /\ (lastOp'.op \in {"drop", "drop_in_place", "exit", "unwind"} /\ c \in lastOp'.cells) =>
              (cell[c].state = "Replaced" /\ cell'[c].state = "Original")
        /\ (lastOp'.op \in {"new", "get", "replace"} /\ lastOp'.c = c
                /\ lastOp'.out = "panic") =>
              (lastOp'.op = "replace" /\ cell[c].state = "Replaced")]_vars

\* a guard was dropped and its cell went back to Original
C4_Witness ==
    /\ lastOp.op = "drop"
    /\ lastOp.out = "ok"
    /\ cell[lastOp.c].state = "Original"

\* C5: a cell in state Replaced always has a guard in a live frame that holds
\* the implementation the cell was created with, and, every scope being left
\* in the end, the cell is eventually back at that implementation in state
\* Original.
C5_GuaranteedRestoration ==
    \A c \in Cells :
        /\ [](cell[c].state = "Replaced" =>
                \E k \in 1..Len(guards) :
                    /\ guards[k].cell = c
                    /\ guards[k].val = origImpl[c]
                    /\ guards[k].scope <= depth)
        /\ (cell[c].state = "Replaced") ~> (cell[c] = new(origImpl[c]))

\* a return from the scope of a guard restored the cell
C5_Witness ==
    /\ lastOp.op = "exit"
    /\ lastOp.cells # {}
    /\ \A c \in lastOp.cells : cell[c] = new(origImpl[c])

\* C6: the first destruction of a guard takes its value out, leaving None; a
\* destruction of a guard that holds None writes no cell and panics with
\* "Value is only taken on drop; qed".
C6_RestoreAtMostOnce ==
    [][lastOp'.op = "drop_in_place" =>
        LET k == lastOp'.arg IN
        /\ guards'[k].val = None
        /\ guards[k].val = None =>
              /\ cell' = cell
              /\ lastOp'.out = "panic"
              /\ lastOp'.msg = MsgTaken]_vars

\* a consumed guard was destroyed again while a later replace of the same
\* cell, with another implementation, was in effect
C6_Witness ==
    /\ lastOp.op = "drop_in_place"
    /\ lastOp.out = "panic"
    /\ cell[lastOp.c].state = "Replaced"
    /\ cell[lastOp.c].impl # origImpl[lastOp.c]

\* C7: replace_implementation tests the state and swaps the content in
\* separate, unsynchronised steps: a thread is rejected only by its own test
\* of a Replaced state, and a thread that has passed the test goes on to swap
\* whatever another thread has stored in between.
C7_NoMutualExclusion ==
    [][\A t \in Threads :
        /\ thr[t].pc = "checked" => thr'[t].pc \in {"checked", "writing"}
        /\ (thr'[t].pc = "panicked" /\ thr[t].pc # "panicked") =>
              (thr[t].pc = "idle" /\ is_replaced(cell[SharedCell]))]_vars

\* two replaces interleaved between test and swap: both threads hold a guard
\* of the same cell, and one guard holds what the other replace stored
C7_Witness ==
    \E t1, t2 \in Threads :
        /\ t1 # t2
        /\ thr[t1].pc = "holding"
        /\ thr[t2].pc = "holding"
        /\ thr[t2].old # origImpl[SharedCell]

\* C8: get() on WrappedFFIValue::from(v) and on WrappedFFIValue::from((v, o))
\* returns v whatever o is, leaves the WrappedFFIValue with its owned value as
\* it was, and returns the same v when it is called again.
C8_CarrierIdentity ==
    [][ffi'.gets = ffi.gets + 1 =>
        /\ ffi'.got = ffi.v
        /\ ffi'.w = ffi.w
        /\ ffi.gets > 0 => ffi'.got = ffi.got]_vars

\* get() was called twice on from((v, o)) with o different from v
C8_Witness ==
    /\ ffi.gets = 2
    /\ ffi.kind = "none"
    /\ ffi.w.tag = "WrappedAndOwned"
    /\ ffi.w.owned # ffi.v
    /\ ffi.got = ffi.v

C10_NewIsOriginal ==
    [][/\ lastOp'.op = "new" =>
            /\ cell'[lastOp'.c].state = "Original"
            /\ get(cell'[lastOp'.c]) = lastOp'.arg
       /\ (lastOp.op = "new" /\ lastOp'.op = "get" /\ lastOp'.c = lastOp.c) =>
            lastOp'.ret = lastOp.arg
       /\ (lastOp.op = "new" /\ lastOp'.op = "replace" /\ lastOp'.c = lastOp.c) =>
            (lastOp'.out = "ok" /\ lastOp'.ret # None)]_vars

\* the first replace on a cell that was just created succeeded
C10_Witness ==
    /\ lastOp.op = "replace"
    /\ lastOp.out = "ok"
    /\ \A c \in Cells \ {lastOp.c} : cell[c] = NoCell
    /\ Len(guards) = 1
    /\ guards[1].val = origImpl[lastOp.c]

\* C11: get() returns the implementation stored in the cell, whether the
\* state tag is Original or Replaced, and changes neither the cell nor any
\* guard nor the frames.
C11_GetIsPureRead ==
    [][lastOp'.op = "get" =>
        /\ lastOp'.ret = cell[lastOp'.c].impl
        /\ lastOp'.out = "ok"
        /\ cell' = cell
        /\ guards' = guards
        /\ depth' = depth
        /\ pc' = pc]_vars

\* get() on a Replaced cell, its guard outstanding, returned the replacement
C11_Witness ==
    /\ lastOp.op = "get"
    /\ cell[lastOp.c].state = "Replaced"
    /\ lastOp.ret = replArg[lastOp.c]
    /\ lastOp.ret # origImpl[lastOp.c]
    /\ \E k \in 1..Len(guards) : guards[k].cell = lastOp.c

\* C12: a cell in state Original stores the implementation passed to new, and
\* a cell in state Replaced stores new_impl of the most recent successful
\* replace_implementation on it.
C12_StoredImplementation ==
    \A c \in Cells :
        /\ cell[c].state = "Original" => cell[c].impl = origImpl[c]
        /\ cell[c].state = "Replaced" =>
              (replArg[c] # None /\ cell[c].impl = replArg[c])

\* one cell is Replaced and stores another implementation than its original,
\* while a second cell was replaced by another implementation than its
\* original and is Original again
C12_Witness ==
    \E c \in Cells :
        /\ c # lastOp.c
        /\ cell[c].state = "Replaced"
        /\ cell[c].impl # origImpl[c]
        /\ lastOp.op = "drop"
        /\ lastOp.arg # lastOp.ret
        /\ cell[lastOp.c].state = "Original"
        /\ cell[lastOp.c].impl = lastOp.ret

\* the guards of cell c that hold their value
guards_of(c) == {k \in 1..Len(guards) : guards[k].cell = c /\ guards[k].val # None}

\* C13: a cell is Replaced exactly when one guard for it is alive and Original
\* exactly when none is, so two live guards of one cell never coexist; the
\* guard returned by a replace holds Some(the implementation that was current
\* when replace_implementation was called).
C13_OneGuardPerReplacedCell ==
    /\ [](\A c \in Cells :
            /\ cell[c].state = "Replaced" <=> Cardinality(guards_of(c)) = 1
            /\ cell[c].state \in {"Original", "NoCell"} <=> guards_of(c) = {}
            /\ Cardinality(guards_of(c)) <= 1)
    /\ [][(lastOp'.op = "replace" /\ lastOp'.out = "ok" /\ lastOp' # lastOp) =>
            /\ Len(guards') = Len(guards) + 1
            /\ guards'[Len(guards')].cell = lastOp'.c
            /\ guards'[Len(guards')].val = cell[lastOp'.c].impl]_vars

\* one cell Replaced with its single guard, the other Original again after
\* the drop of its guard
C13_Witness ==
    /\ lastOp.op = "drop"
    /\ Len(guards) = 1
    /\ guards[1].cell # lastOp.c
    /\ cell[guards[1].cell].state = "Replaced"
    /\ guards[1].val # cell[guards[1].cell].impl
    /\ cell[lastOp.c].state = "Original"

\* C14: a replace_implementation is accepted exactly when the state tag is
\* Original, whatever the implementations are: it is possible with every
\* new_impl on every Original cell, it moves the cell to Replaced also when
\* new_impl is the implementation already stored, and on a Replaced cell it is
\* rejected for every new_impl.
C14_AcceptanceByTagOnly ==
    /\ [](\A c \in Cells, i \in Impls :
            (Running /\ cell[c].state = "Original") =>
                ENABLED (ReplaceImplementation(c, i) /\ lastOp'.out = "ok"))
    /\ [][\A c \in Cells :
            (lastOp'.op = "replace" /\ lastOp'.c = c /\ lastOp' # lastOp) =>
                /\ lastOp'.out = "ok" <=> cell[c].state = "Original"
                /\ lastOp'.out = "panic" <=> cell[c].state = "Replaced"
                /\ cell'[c].state = "Replaced"]_vars

\* a replace with the implementation the cell already stored was accepted,
\* and the replace that followed it was rejected
C14_Witness ==
    /\ lastOp.op = "replace"
    /\ lastOp.out = "panic"
    /\ cell[lastOp.c].state = "Replaced"
    /\ cell[lastOp.c].impl = origImpl[lastOp.c]
    /\ replArg[lastOp.c] = origImpl[lastOp.c]

\* C15: a replace_implementation (accepted or rejected), a get and the drop
\* of a guard change no cell but their own, the exit or unwinding of a frame
\* changes only the cells of the guards it drops, and once no guard is left
\* every cell holds its own original implementation in state Original.
C15_CellsIndependent ==
    /\ [](guards = <<>> =>
            \A c \in Cells : cell[c] # NoCell => cell[c] = new(origImpl[c]))
    /\ [][\A d \in Cells :
            /\ (lastOp'.op \in {"new", "replace", "get", "drop"} /\ lastOp'.c # d) =>
                  cell'[d] = cell[d]
            /\ (lastOp'.op \in {"exit", "unwind"} /\ d \notin lastOp'.cells) =>
                  cell'[d] = cell[d]]_vars

\* two cells with different originals were both replaced; the guard of one
\* was dropped and restored it while the other cell is still Replaced
C15_Witness ==
    \E d \in Cells :
        /\ lastOp.op = "drop"
        /\ d # lastOp.c
        /\ origImpl[d] # origImpl[lastOp.c]
        /\ cell[lastOp.c] = new(origImpl[lastOp.c])
        /\ lastOp.arg # origImpl[lastOp.c]
        /\ cell[d].state = "Replaced"
        /\ cell[d].impl # origImpl[d]
        /\ guards = <<RestoreImplementation(d, origImpl[d], 1)>>
\* the calls of a complete apply, in the order of the code
SignedCalls == <<"Extra::pre_dispatch", "call.dispatch", "Extra::post_dispatch">>
UnsignedCalls ==
    <<"Extra::pre_dispatch_unsigned", "U::pre_dispatch", "call.dispatch",
      "Extra::post_dispatch">>
CallsOf(tx) == IF tx.signed THEN SignedCalls ELSE UnsignedCalls
Called(name) == \E k \in 1..Len(xt.trace) : xt.trace[k] = name

\* C16: the calls apply has made are always the first calls of pre_dispatch,
\* dispatch, post_dispatch (signed) or of pre_dispatch_unsigned,
\* U::pre_dispatch, dispatch, post_dispatch (unsigned); once dispatch has
\* returned apply can only go on to post_dispatch, and when apply has
\* returned after a dispatch, post_dispatch was called once, after it, with
\* the Pre of the check, and the value returned is Ok of the dispatch result,
\* a dispatch error being the inner Err.
C16_ApplyOrder ==
    LET calls == CallsOf(xt.tx) IN
    /\ Len(xt.trace) <= Len(calls)
    /\ xt.trace = SubSeq(calls, 1, Len(xt.trace))
    /\ (Called("call.dispatch") /\ xt.at # "done") => xt.at = "post"
    /\ (Called("call.dispatch") /\ xt.at = "done") =>
          /\ xt.trace = calls
          /\ xt.post = xt.pre
          /\ xt.ret.tag = "Ok"
          /\ xt.ret.err = None
          /\ xt.ret.outcome = xt.res
    /\ xt.ret.tag = "Ok" => Called("call.dispatch")

\* an unsigned transaction passed both checks, its dispatch failed,
\* post_dispatch was called and apply returned Ok(Err(e))
C16_Witness ==
    /\ xt.at = "done"
    /\ ~xt.tx.signed
    /\ xt.trace = UnsignedCalls
    /\ ~xt.res.ok
    /\ xt.ret = ApplyOk(DispatchErr(xt.res.err))

\* C17: when Extra::pre_dispatch, Extra::pre_dispatch_unsigned or
\* U::pre_dispatch returns Err(e), apply returns Err(e) at once: the failed
\* check is its last call, the call is not dispatched and post_dispatch is
\* not called, also when the check before it had succeeded.
C17_StopsAtFirstFailure ==
    ~xt.chk.ok =>
        /\ xt.at = "done"
        /\ xt.ret = ApplyErr(xt.chk.err)
        /\ ~Called("call.dispatch")
        /\ ~Called("Extra::post_dispatch")
        /\ xt.res = NoOutcome
        /\ xt.post = None
        /\ xt.trace[Len(xt.trace)] \in
              {"Extra::pre_dispatch", "Extra::pre_dispatch_unsigned", "U::pre_dispatch"}

\* Extra::pre_dispatch_unsigned succeeded, U::pre_dispatch failed and apply
\* returned its error
C17_Witness ==
    /\ xt.at = "done"
    /\ xt.trace = <<"Extra::pre_dispatch_unsigned", "U::pre_dispatch">>
    /\ xt.pre # None
    /\ ~xt.chk.ok
    /\ xt.ret = ApplyErr(xt.chk.err)
====
